---- MODULE Spec2Model ----
(***************************************************************************)
(* Model of dave.c: firmware for an 8x8x8 LED cube (icubesmart 3D8S).      *)
(*                                                                         *)
(* Two concurrency domains:                                                *)
(*   - the main thread: main() dispatches on `mode` to the generators      *)
(*     dave(), points(), planes(), all(); each generator mutates the       *)
(*     frame buffer display[z][y] and waits in pause(), which polls the    *)
(*     three active-low buttons P4_1, P4_2, P4_3;                          *)
(*   - the timer-0 interrupt timer_isr(), which scans one layer of the     *)
(*     frame buffer onto the ports P2 (latch select), P0 (cathode data)    *)
(*     and P1 (anode layer select).                                        *)
(*                                                                         *)
(* A pin read is a nondeterministic sample (0 = pressed, 1 = released).    *)
(* smp1, smp2, smp3 are history variables: the last level pause() read     *)
(* from each pin, and 2 (no level) before the first read.                  *)
(***************************************************************************)
EXTENDS Integers, Sequences, FiniteSets, TLC

VARIABLES
    display,    \* display[z][y], one byte per row, bit 128>>x, 0 = led on
    mode,       \* static int mode
    pause,      \* static pause flag of pause()
    p41key,     \* static latch of button 1
    p42key,     \* static latch of button 2
    p43key,     \* static latch of button 3
    i,          \* remaining ticks of the running pause() call
    pret,       \* value returned by the last pause() call
    gret,       \* value returned by the last generator call
    mpc,        \* position of the main thread
    rpc,        \* position pause() returns to
    dmode,      \* operand of the switch the main loop is executing
    stage,      \* number of generators done in this loop iteration
    c, x, y, z, \* loop variables of the running generator
    P4,         \* button port latch
    TR0,        \* timer 0 running with its interrupt enabled
    smp1, smp2, smp3,   \* last sample pause() took of P4_1, P4_2, P4_3
    layer,      \* static layer of timer_isr()
    isr_i,      \* loop variable i of timer_isr()
    ipc,        \* position of the interrupt routine, "idle" outside it
    P0, P1, P2, \* cathode data, anode layer select, latch select
    wr,         \* history: the port writes of the running timer_isr()
    scan,       \* history: the layers the last (up to 8) interrupts enabled
    assigned,   \* history: the main thread has assigned the frame buffer
    arg_v,      \* argument v of the running display primitive
    arg_c,      \* argument c (8 rows) of the running character_on_y()
    tmp,        \* the byte a read-modify-write of display[z][y] has read
    display0,   \* history: the frame buffer when the primitive was called
    mfr,        \* activation of delay()/delay5us() in the main thread
    ifr,        \* activation of delay()/delay5us() in the interrupt
    nticks      \* history: loop rounds of the running pause() call

harness  == <<arg_v, arg_c, tmp, display0, mfr, nticks>>
mainVars == <<display, mode, pause, p41key, p42key, p43key, i, pret, gret,
              mpc, rpc, dmode, stage, c, x, y, z, P4, TR0, smp1, smp2, smp3,
              assigned, harness>>
isrVars  == <<layer, isr_i, ipc, P0, P1, P2, wr, scan, ifr>>
vars     == <<mainVars, isrVars>>

(***************************************************************************)
(* Bounds.  The tick counts of pause() (1000 .. 60000) are capped.         *)
(***************************************************************************)
MaxTicks == 2

Cap(n) == IF n > MaxTicks THEN MaxTicks ELSE n

Levels   == {0, 1}          \* 0: pin low (pressed), 1: pin high (released)
Idx      == 0 .. 7

(***************************************************************************)
(* Bit arithmetic on unsigned char.                                        *)
(***************************************************************************)
RECURSIVE Pow2(_)
Pow2(n) == IF n = 0 THEN 1 ELSE 2 * Pow2(n - 1)

\* 128 >> px
XMask(px) == 128 \div Pow2(px)

BitOf(b, m) == (b \div m) % 2

\* b & ~m, for m with a single bit set
AndNot(b, m) == IF BitOf(b, m) = 1 THEN b - m ELSE b

\* b | m, for m with a single bit set
Or(b, m) == IF BitOf(b, m) = 0 THEN b + m ELSE b

\* (unsigned char) ~b
Not8(b) == 255 - b

\* the led at (px, py, pz) is on in frame buffer d
LedOn(d, px, py, pz) == BitOf(d[pz][py], XMask(px)) = 0

(***************************************************************************)
(* Display primitives, as functions of the frame buffer.                   *)
(***************************************************************************)
set_all(d, v) ==
    [j \in Idx |-> [k \in Idx |-> IF v # 0 THEN 0 ELSE 255]]

\* variant: whole bytes written, as set_y_plane does
set_x_plane_WholeByte(d, px, v) ==
    [j \in Idx |-> [k \in Idx |-> IF v # 0 THEN 0 ELSE 255]]

set_x_plane(d, px, v) ==
    [j \in Idx |-> [k \in Idx |->
        IF v # 0 THEN AndNot(d[j][k], XMask(px)) ELSE Or(d[j][k], XMask(px))]]

set_y_plane(d, py, v) ==
    [j \in Idx |-> [d[j] EXCEPT ![py] = IF v # 0 THEN 0 ELSE 255]]

set_z_plane(d, pz, v) ==
    [d EXCEPT ![pz] = [k \in Idx |-> IF v # 0 THEN 0 ELSE 255]]

\* variant: the mask 1 << x in place of 128 >> x
PointByte_LowMask(b, px, v) ==
    IF v # 0 THEN AndNot(b, Pow2(px)) ELSE Or(b, Pow2(px))

\* b &= ~(128>>x) when v, b |= (128>>x) otherwise
PointByte(b, px, v) ==
    IF v # 0 THEN AndNot(b, XMask(px)) ELSE Or(b, XMask(px))

\* variant: the led is turned on whatever v is
set_point_AlwaysOn(d, px, py, pz, v) ==
    [d EXCEPT ![pz][py] = PointByte(@, px, 1)]

set_point(d, px, py, pz, v) ==
    [d EXCEPT ![pz][py] = PointByte(@, px, v)]

\* variant: the rows stored without the complement
character_on_y_Positive(d, py, glyph) ==
    [j \in Idx |-> [d[j] EXCEPT ![py] = glyph[j + 1]]]

\* glyph is a sequence of 8 positive-logic rows, glyph[pz + 1] for row pz
character_on_y(d, py, glyph) ==
    [j \in Idx |-> [d[j] EXCEPT ![py] = Not8(glyph[j + 1])]]

\* __code unsigned char dave[4][8]
daveGlyphs ==
    << <<248, 252, 198, 195, 195, 198, 252, 248>>,     \* D
       <<195, 195, 255, 255, 195, 102,  60,  24>>,     \* A
       << 24,  60, 102, 195, 195, 195, 195, 195>>,     \* V
       <<255, 255, 192, 248, 248, 192, 255, 255>> >>   \* E

(***************************************************************************)
(* An activation of delay() or delay5us(): pc is "off" when none runs,     *)
(* a and b are the counters of delay5us(), n is the counter i of delay(),  *)
(* top tells which of the two was called, cnt counts (history) the calls   *)
(* of delay5us() the running delay() has made.                             *)
(***************************************************************************)
FrameOff == [pc |-> "off", a |-> 0, b |-> 0, n |-> 0, top |-> "none",
             cnt |-> 0]

(***************************************************************************)
(* Initial state: the ports at their reset value 0xFF, static storage      *)
(* zeroed, timer 0 stopped.                                                *)
(***************************************************************************)
Init ==
    /\ display = [j \in Idx |-> [k \in Idx |-> 0]]
    /\ mode = 0
    /\ pause = 0 /\ p41key = 0 /\ p42key = 0 /\ p43key = 0
    /\ i = 0 /\ pret = 0 /\ gret = 0
    /\ mpc = "main_sinter" /\ rpc = "none"
    /\ dmode = 0 /\ stage = 0
    /\ c = 0 /\ x = 0 /\ y = 0 /\ z = 0
    /\ P4 = 255 /\ TR0 = 0
    /\ smp1 = 2 /\ smp2 = 2 /\ smp3 = 2
    /\ layer = 0 /\ isr_i = 0 /\ ipc = "idle"
    /\ P0 = 255 /\ P1 = 255 /\ P2 = 255
    /\ wr = <<>> /\ scan = <<>>
    /\ assigned = FALSE
    /\ arg_v = 0 /\ arg_c = <<>> /\ tmp = 0
    /\ display0 = display
    /\ mfr = FrameOff /\ ifr = FrameOff
    /\ nticks = 0

statics == <<mode, pause, p41key, p42key, p43key>>
samples == <<smp1, smp2, smp3>>
loops   == <<c, x, y, z>>
hw      == <<P4, TR0>>

\* the main thread runs only while no interrupt is being served
MainRuns == ipc = "idle"

(***************************************************************************)
(* pause(i): lines 76-120.  delay5us() and delay(100) are busy loops over  *)
(* their own counters; they take time and change nothing else, so the      *)
(* step that contains one just goes on.                                    *)
(***************************************************************************)
\* a call of pause(n) that returns to position ret
CallPause(n, ret) ==
    /\ i' = Cap(n)
    /\ pret' = 0
    /\ rpc' = ret
    /\ mpc' = "pause_while"

\* while (i--) { delay5us(); ... } return 0;
pause_while ==
    /\ MainRuns /\ mpc = "pause_while"
    /\ UNCHANGED <<assigned, harness>>
    /\ IF i = 0
         THEN /\ pret' = 0
              /\ mpc' = rpc
              /\ i' = i
         ELSE /\ i' = i - 1
              /\ mpc' = "pause_b1"
              /\ pret' = pret
    /\ UNCHANGED <<display, statics, gret, rpc, dmode, stage, loops, hw,
                   samples, isrVars>>

\* variant: the latch is not consulted, every pressed sample counts
NewPress1_AnyPress(s, key) == s = 0

\* if (!P4_1) if (!p41key): a press of button 1 that is a new press
NewPress1(s, key) == s = 0 /\ key = 0

\* variant: the loop of button 1 is left whatever the pause flag
LeavesB1Loop_Always(p) == TRUE

\* if (!pause) break;
LeavesB1Loop(p) == p = 0

\* one iteration of the while (1) loop of button 1;
\* S: the levels P4_1 can have
pause_b1(S) ==
    /\ MainRuns /\ mpc = "pause_b1"
    /\ UNCHANGED <<assigned, harness>>
    /\ \E s \in S :
         /\ smp1' = s
         /\ IF s = 0
              THEN IF NewPress1(s, p41key)
                     THEN /\ p41key' = 1
                          /\ pause' = 1 - pause
                     ELSE UNCHANGED <<p41key, pause>>
              ELSE /\ p41key' = 0
                   /\ pause' = pause
    /\ mpc' = IF LeavesB1Loop(pause') THEN "pause_b2" ELSE "pause_b1"
    /\ UNCHANGED <<display, mode, p42key, p43key, i, pret, gret, rpc, dmode,
                   stage, loops, hw, smp2, smp3, isrVars>>

\* if (!P4_2) if (!p42key) {...; return(1);} else p42key = 0;
\* the else belongs to the inner if; S: the levels P4_2 can have
pause_b2(S) ==
    /\ MainRuns /\ mpc = "pause_b2"
    /\ UNCHANGED <<assigned, harness>>
    /\ \E s \in S :
         /\ smp2' = s
         /\ IF s = 0
              THEN IF p42key = 0
                     THEN /\ p42key' = 1
                          /\ mode' = 0
                          /\ pret' = 1
                          /\ i' = 0
                          /\ mpc' = rpc
                     ELSE /\ p42key' = 0
                          /\ mpc' = "pause_b3"
                          /\ UNCHANGED <<mode, pret, i>>
              ELSE /\ mpc' = "pause_b3"
                   /\ UNCHANGED <<p42key, mode, pret, i>>
    /\ UNCHANGED <<display, pause, p41key, p43key, gret, rpc, dmode, stage,
                   loops, hw, smp1, smp3, isrVars>>

\* variant: the increment without the wrap
NextMode_NoWrap(m) == m + 1

\* variant: the wrap one mode too late
NextMode_Mod6(m) == (m + 1) % 6

\* mode = (mode + 1) % 5
NextMode(m) == (m + 1) % 5

\* variant: the latch is not consulted, every pressed sample counts
NewPress3_AnyPress(s, key) == s = 0

\* if (!P4_3) if (!p43key): a press of button 3 that is a new press
NewPress3(s, key) == s = 0 /\ key = 0

\* if (!P4_3) { if (!p43key) {...; return(1);} } else p43key = 0;
\* S: the levels P4_3 can have
pause_b3(S) ==
    /\ MainRuns /\ mpc = "pause_b3"
    /\ UNCHANGED <<assigned, harness>>
    /\ \E s \in S :
         /\ smp3' = s
         /\ IF s = 0
              THEN IF NewPress3(s, p43key)
                     THEN /\ p43key' = 1
                          /\ mode' = NextMode(mode)
                          /\ pret' = 1
                          /\ i' = 0
                          /\ mpc' = rpc
                     ELSE /\ mpc' = "pause_while"
                          /\ UNCHANGED <<p43key, mode, pret, i>>
              ELSE /\ p43key' = 0
                   /\ mpc' = "pause_while"
                   /\ UNCHANGED <<mode, pret, i>>
    /\ UNCHANGED <<display, pause, p41key, p42key, gret, rpc, dmode, stage,
                   loops, hw, smp1, smp2, isrVars>>

(***************************************************************************)
(* Generators.  A position X_chk is the test of `if (pause(n))`; one step  *)
(* of a generator runs from such a test to the next call of pause().       *)
(***************************************************************************)
\* variant: a generator that always reports completion
GenReturn_Zero(v) ==
    /\ gret' = 0
    /\ mpc' = "main_ret"
    /\ rpc' = "none"
    /\ c' = 0 /\ x' = 0 /\ y' = 0 /\ z' = 0

\* return(v) of a generator; its locals die
GenReturn(v) ==
    /\ gret' = v
    /\ mpc' = "main_ret"
    /\ rpc' = "none"
    /\ c' = 0 /\ x' = 0 /\ y' = 0 /\ z' = 0

\* all(): lines 197-209
all_begin ==
    /\ MainRuns /\ mpc = "all_begin"
    /\ assigned' = TRUE /\ UNCHANGED harness
    /\ display' = set_all(display, 1)
    /\ CallPause(60000, "all_chk1")
    /\ UNCHANGED <<statics, gret, dmode, stage, loops, hw, samples, isrVars>>

all_chk1 ==
    /\ MainRuns /\ mpc = "all_chk1"
    /\ UNCHANGED <<assigned, harness>>
    /\ IF pret # 0
         THEN /\ GenReturn(1)
              /\ UNCHANGED <<display, i, pret>>
         ELSE /\ display' = set_all(display, 0)
              /\ CallPause(60000, "all_chk2")
              /\ UNCHANGED <<gret, loops>>
    /\ UNCHANGED <<statics, dmode, stage, hw, samples, isrVars>>

all_chk2 ==
    /\ MainRuns /\ mpc = "all_chk2"
    /\ UNCHANGED <<assigned, harness>>
    /\ GenReturn(IF pret # 0 THEN 1 ELSE 0)
    /\ UNCHANGED <<display, statics, i, pret, dmode, stage, hw, samples,
                   isrVars>>

\* planes(): lines 214-241
planes_begin ==
    /\ MainRuns /\ mpc = "planes_begin"
    /\ assigned' = TRUE /\ UNCHANGED harness
    /\ display' = set_x_plane(set_all(display, 0), 0, 1)
    /\ x' = 0
    /\ CallPause(10000, "planes_xchk")
    /\ UNCHANGED <<statics, gret, dmode, stage, c, y, z, hw, samples, isrVars>>

planes_xchk ==
    /\ MainRuns /\ mpc = "planes_xchk"
    /\ UNCHANGED <<assigned, harness>>
    /\ IF pret # 0
         THEN /\ GenReturn(1)
              /\ UNCHANGED <<display, i, pret>>
         ELSE IF x + 1 < 8
                THEN /\ display' = set_x_plane(set_x_plane(display, x, 0),
                                               x + 1, 1)
                     /\ x' = x + 1
                     /\ CallPause(10000, "planes_xchk")
                     /\ UNCHANGED <<gret, c, y, z>>
                ELSE /\ display' = set_y_plane(set_x_plane(display, x, 0),
                                               0, 1)
                     /\ x' = x + 1
                     /\ y' = 0
                     /\ CallPause(10000, "planes_ychk")
                     /\ UNCHANGED <<gret, c, z>>
    /\ UNCHANGED <<statics, dmode, stage, hw, samples, isrVars>>

planes_ychk ==
    /\ MainRuns /\ mpc = "planes_ychk"
    /\ UNCHANGED <<assigned, harness>>
    /\ IF pret # 0
         THEN /\ GenReturn(1)
              /\ UNCHANGED <<display, i, pret>>
         ELSE IF y + 1 < 8
                THEN /\ display' = set_y_plane(set_y_plane(display, y, 0),
                                               y + 1, 1)
                     /\ y' = y + 1
                     /\ CallPause(10000, "planes_ychk")
                     /\ UNCHANGED <<gret, c, x, z>>
                ELSE /\ display' = set_z_plane(set_y_plane(display, y, 0),
                                               0, 1)
                     /\ y' = y + 1
                     /\ z' = 0
                     /\ CallPause(10000, "planes_zchk")
                     /\ UNCHANGED <<gret, c, x>>
    /\ UNCHANGED <<statics, dmode, stage, hw, samples, isrVars>>

planes_zchk ==
    /\ MainRuns /\ mpc = "planes_zchk"
    /\ UNCHANGED <<assigned, harness>>
    /\ IF pret # 0
         THEN /\ GenReturn(1)
              /\ UNCHANGED <<display, i, pret>>
         ELSE IF z + 1 < 8
                THEN /\ display' = set_z_plane(set_z_plane(display, z, 0),
                                               z + 1, 1)
                     /\ z' = z + 1
                     /\ CallPause(10000, "planes_zchk")
                     /\ UNCHANGED <<gret, c, x, y>>
                ELSE /\ display' = set_z_plane(display, z, 0)
                     /\ GenReturn(0)
                     /\ UNCHANGED <<i, pret>>
    /\ UNCHANGED <<statics, dmode, stage, hw, samples, isrVars>>

\* points(): lines 246-262
points_begin ==
    /\ MainRuns /\ mpc = "points_begin"
    /\ assigned' = TRUE /\ UNCHANGED harness
    /\ display' = set_point(set_all(display, 0), 0, 0, 0, 1)
    /\ x' = 0 /\ y' = 0 /\ z' = 0
    /\ CallPause(1000, "points_chk")
    /\ UNCHANGED <<statics, gret, dmode, stage, c, hw, samples, isrVars>>

points_chk ==
    /\ MainRuns /\ mpc = "points_chk"
    /\ UNCHANGED <<assigned, harness>>
    /\ IF pret # 0
         THEN /\ GenReturn(1)
              /\ UNCHANGED <<display, i, pret>>
         ELSE IF z + 1 < 8
                THEN /\ display' = set_point(set_point(display, x, y, z, 0),
                                             x, y, z + 1, 1)
                     /\ z' = z + 1
                     /\ CallPause(1000, "points_chk")
                     /\ UNCHANGED <<gret, c, x, y>>
                ELSE IF y + 1 < 8
                       THEN /\ display' =
                                 set_point(set_point(display, x, y, z, 0),
                                           x, y + 1, 0, 1)
                            /\ y' = y + 1
                            /\ z' = 0
                            /\ CallPause(1000, "points_chk")
                            /\ UNCHANGED <<gret, c, x>>
                       ELSE IF x + 1 < 8
                              THEN /\ display' =
                                        set_point(
                                            set_point(display, x, y, z, 0),
                                            x + 1, 0, 0, 1)
                                   /\ x' = x + 1
                                   /\ y' = 0
                                   /\ z' = 0
                                   /\ CallPause(1000, "points_chk")
                                   /\ UNCHANGED <<gret, c>>
                              ELSE /\ display' =
                                        set_point(display, x, y, z, 0)
                                   /\ GenReturn(0)
                                   /\ UNCHANGED <<i, pret>>
    /\ UNCHANGED <<statics, dmode, stage, hw, samples, isrVars>>

\* dave(): lines 267-294
dave_begin ==
    /\ MainRuns /\ mpc = "dave_begin"
    /\ assigned' = TRUE /\ UNCHANGED harness
    /\ display' = character_on_y(set_all(display, 0), 0, daveGlyphs[1])
    /\ c' = 0 /\ y' = 0
    /\ CallPause(5000, "dave_chk")
    /\ UNCHANGED <<statics, gret, dmode, stage, x, z, hw, samples, isrVars>>

dave_chk ==
    /\ MainRuns /\ mpc = "dave_chk"
    /\ UNCHANGED <<assigned, harness>>
    /\ IF pret # 0
         THEN /\ GenReturn(1)
              /\ UNCHANGED <<display, i, pret>>
         ELSE IF y + 1 < 8
                THEN /\ display' = character_on_y(set_y_plane(display, y, 0),
                                                  y + 1, daveGlyphs[c + 1])
                     /\ y' = y + 1
                     /\ CallPause(5000, "dave_chk")
                     /\ UNCHANGED <<gret, c, x, z>>
                ELSE IF c + 1 < 4
                       THEN /\ display' =
                                 character_on_y(set_y_plane(display, y, 0),
                                                0, daveGlyphs[c + 2])
                            /\ c' = c + 1
                            /\ y' = 0
                            /\ CallPause(5000, "dave_chk")
                            /\ UNCHANGED <<gret, x, z>>
                       ELSE /\ display' =
                                 set_all(set_y_plane(display, y, 0), 1)
                            /\ c' = c + 1
                            /\ y' = y + 1
                            /\ CallPause(30000, "dave_end")
                            /\ UNCHANGED <<gret, x, z>>
    /\ UNCHANGED <<statics, dmode, stage, hw, samples, isrVars>>

dave_end ==
    /\ MainRuns /\ mpc = "dave_end"
    /\ UNCHANGED <<assigned, harness>>
    /\ GenReturn(IF pret # 0 THEN 1 ELSE 0)
    /\ UNCHANGED <<display, statics, i, pret, dmode, stage, hw, samples,
                   isrVars>>

(***************************************************************************)
(* main(): lines 297-327.                                                  *)
(***************************************************************************)
\* sinter(): lines 39-46, IE = 0x82 and TR0 = 1
main_sinter ==
    /\ MainRuns /\ mpc = "main_sinter"
    /\ UNCHANGED <<assigned, harness>>
    /\ TR0' = 1
    /\ mpc' = "main_p4"
    /\ UNCHANGED <<display, statics, i, pret, gret, rpc, dmode, stage, loops,
                   P4, samples, isrVars>>

\* variant: the port written is P1
main_p4_WritesP1 ==
    /\ MainRuns /\ mpc = "main_p4"
    /\ UNCHANGED <<assigned, harness>>
    /\ P1' = 255
    /\ mpc' = "main_switch"
    /\ UNCHANGED <<display, statics, i, pret, gret, rpc, dmode, stage, loops,
                   hw, samples, layer, isr_i, ipc, P0, P2, wr, scan, ifr>>

main_p4 ==
    /\ MainRuns /\ mpc = "main_p4"
    /\ UNCHANGED <<assigned, harness>>
    /\ P4' = 255
    /\ mpc' = "main_switch"
    /\ UNCHANGED <<display, statics, i, pret, gret, rpc, dmode, stage, loops,
                   TR0, samples, isrVars>>

\* the generators in the order of case 4, which is also the order of
\* the modes 0..3
Generators == <<"dave", "points", "planes", "all">>

Entry(g) ==
    CASE g = "dave"   -> "dave_begin"
      [] g = "points" -> "points_begin"
      [] g = "planes" -> "planes_begin"
      [] g = "all"    -> "all_begin"

\* the generator a case of the switch calls first
FirstOf(m) == IF m = 4 THEN "dave" ELSE Generators[m + 1]

\* variant: the switch goes by the mode of the iteration before
main_switch_Stale ==
    /\ MainRuns /\ mpc = "main_switch"
    /\ UNCHANGED <<assigned, harness>>
    /\ dmode' = dmode
    /\ stage' = 0
    /\ gret' = 0
    /\ mpc' = Entry(FirstOf(dmode))
    /\ UNCHANGED <<display, statics, i, pret, rpc, loops, hw, samples,
                   isrVars>>

\* switch (mode); there is no default case
main_switch ==
    /\ MainRuns /\ mpc = "main_switch"
    /\ UNCHANGED <<assigned, harness>>
    /\ dmode' = mode
    /\ stage' = 0
    /\ gret' = 0
    /\ mpc' = IF mode \in 0 .. 4 THEN Entry(FirstOf(mode)) ELSE "main_switch"
    /\ UNCHANGED <<display, statics, i, pret, rpc, loops, hw, samples,
                   isrVars>>

\* variant: case 4 without the breaks
Continues_IgnoreRet(m, st, r) == m = 4 /\ st < 3

\* case 4 goes on to the next generator when one returns 0
Continues(m, st, r) == m = 4 /\ st < 3 /\ r = 0

\* after a generator returned: the rest of the case, then the break
main_ret ==
    /\ MainRuns /\ mpc = "main_ret"
    /\ UNCHANGED <<assigned, harness>>
    /\ IF Continues(dmode, stage, gret)
         THEN /\ stage' = stage + 1
              /\ gret' = 0
              /\ mpc' = Entry(Generators[stage + 2])
         ELSE /\ mpc' = "main_switch"
              /\ UNCHANGED <<stage, gret>>
    /\ UNCHANGED <<display, statics, i, pret, rpc, dmode, loops, hw, samples,
                   isrVars>>

GenNext ==
    \/ all_begin \/ all_chk1 \/ all_chk2
    \/ planes_begin \/ planes_xchk \/ planes_ychk \/ planes_zchk
    \/ points_begin \/ points_chk
    \/ dave_begin \/ dave_chk \/ dave_end

\* the main thread, apart from the button polls
MainNext ==
    \/ main_sinter \/ main_p4 \/ main_switch \/ main_ret
    \/ GenNext
    \/ pause_while

(***************************************************************************)
(* timer_isr(): lines 349-376.  It starts when timer 0 runs and no         *)
(* interrupt is being served, and the main thread stands still until it    *)
(* returns.                                                                *)
(***************************************************************************)
\* (unsigned char) 1 << n
Shl1(n) == Pow2(n)

\* variant: the layers are not deselected on entry
isr_enter_NoDeselect ==
    /\ ipc = "idle" /\ TR0 = 1
    /\ wr' = << <<"P1", P1>> >>
    /\ isr_i' = 0
    /\ ipc' = "select"
    /\ UNCHANGED <<mainVars, layer, P0, P1, P2, scan, ifr>>

\* variant: the interrupt is not taken while the pause flag is set
isr_enter_WhileUnpaused ==
    /\ ipc = "idle" /\ TR0 = 1 /\ pause = 0
    /\ P1' = 255
    /\ wr' = << <<"P1", 255>> >>
    /\ isr_i' = 0
    /\ ipc' = "select"
    /\ UNCHANGED <<mainVars, layer, P0, P2, scan, ifr>>

\* P1 = 255; i = 0
isr_enter ==
    /\ ipc = "idle" /\ TR0 = 1
    /\ P1' = 255
    /\ wr' = << <<"P1", 255>> >>
    /\ isr_i' = 0
    /\ ipc' = "select"
    /\ UNCHANGED <<mainVars, layer, P0, P2, scan, ifr>>

\* P2 = 1<<i; delay(3)
isr_select ==
    /\ ipc = "select"
    /\ P2' = Shl1(isr_i)
    /\ wr' = Append(wr, <<"P2", P2'>>)
    /\ ipc' = "data"
    /\ UNCHANGED <<mainVars, layer, isr_i, P0, P1, scan, ifr>>

\* P0 = display[layer][i]; delay(3); i++
isr_data ==
    /\ ipc = "data"
    /\ P0' = display[layer][isr_i]
    /\ wr' = Append(wr, <<"P0", P0'>>)
    /\ isr_i' = isr_i + 1
    /\ ipc' = IF isr_i + 1 < 8 THEN "select" ELSE "enable"
    /\ UNCHANGED <<mainVars, layer, P1, P2, scan, ifr>>

\* variant: the select mask without the inversion
LayerSelect_NotInverted(l) == Shl1(l)

\* variant: the wrap one layer too early
NextLayer_WrapEarly(l) == IF l + 1 > 6 THEN 0 ELSE l + 1

\* layer++; if (layer > 7) layer = 0;
NextLayer(l) == IF l + 1 > 7 THEN 0 ELSE l + 1

\* the last 8 elements of q
LastEight(q) == IF Len(q) > 8 THEN SubSeq(q, Len(q) - 7, Len(q)) ELSE q

\* ~(1<<l)
LayerSelect(l) == Not8(Shl1(l))

\* P1 = ~(1<<layer); layer++; if (layer > 7) layer = 0; return
isr_enable ==
    /\ ipc = "enable"
    /\ P1' = LayerSelect(layer)
    /\ wr' = <<>>
    /\ scan' = LastEight(Append(scan, layer))
    /\ layer' = NextLayer(layer)
    /\ isr_i' = 0
    /\ ipc' = "idle"
    /\ UNCHANGED <<mainVars, P0, P2, ifr>>

IsrNext == isr_enter \/ isr_select \/ isr_data \/ isr_enable

(***************************************************************************)
(* Specifications.                                                         *)
(*   Spec    : the main thread, every button driven by the environment.    *)
(*   SpecIsr : the main thread and the timer interrupt interleaved, with   *)
(*             button 1 driven by the environment and the mode buttons 2   *)
(*             and 3 left released, so that the mode stays 0 and the       *)
(*             main loop runs dave() again and again.                      *)
(***************************************************************************)
Released == {1}

Next ==
    \/ MainNext
    \/ pause_b1(Levels) \/ pause_b2(Levels) \/ pause_b3(Levels)

Spec == Init /\ [][Next]_vars

NextIsr ==
    \/ main_sinter \/ main_p4 \/ main_switch \/ main_ret
    \/ dave_begin \/ dave_chk \/ dave_end
    \/ pause_while
    \/ pause_b1(Levels) \/ pause_b2(Released) \/ pause_b3(Released)
    \/ IsrNext

SpecIsr == Init /\ [][NextIsr]_vars

(***************************************************************************)
(* Properties of the button handling (Spec).                               *)
(***************************************************************************)
\* C1: the pause flag toggles on a step exactly when that step samples
\* button 1 pressed and the previous sample of button 1 was not pressed
\* (released, or there was none); so a held button or a release never
\* toggles it and N pressed samples in a row toggle it once.
C1_PauseDebounce ==
    [][ (pause' # pause) <=> (mpc = "pause_b1" /\ smp1' = 0 /\ smp1 # 0) ]_vars

\* button 1 pressed, released and pressed again: the flag is back to 0
C1_Witness ==
    pause = 0 /\ smp1 = 0 /\ p41key = 1 /\ mpc = "pause_b2"

\* C2: a step of the button-2 test returns 1 exactly when it samples
\* button 2 pressed after a sample that was not pressed, and the latch
\* p42key is cleared only by a released sample.
C2_ResetDebounce ==
    [][ mpc = "pause_b2" =>
          /\ (pret' = 1) <=> (smp2' = 0 /\ smp2 # 0)
          /\ (p42key = 1 /\ p42key' = 0) => smp2' = 1 ]_vars

\* C3: a step of the button-3 test changes the mode, and returns 1, exactly
\* when it samples button 3 pressed after a sample that was not pressed;
\* the latch p43key is cleared only by a released sample.
C3_AdvanceDebounce ==
    [][ mpc = "pause_b3" =>
          /\ (mode' # mode) <=> (smp3' = 0 /\ smp3 # 0)
          /\ (mode' # mode) <=> (pret' = 1 /\ mpc' = rpc)
          /\ (p43key = 1 /\ p43key' = 0) => smp3' = 1 ]_vars

\* button 3 still held at a later tick: the latch is set and pause() goes on
C3_Witness ==
    /\ mpc = "pause_while" /\ 0 < i /\ i < MaxTicks
    /\ smp3 = 0 /\ p43key = 1 /\ pret = 0

\* C4: an advance event takes mode 0,1,2,3,4 to 1,2,3,4,0 and a reset
\* event takes every mode to 0.
C4_ModeTransition ==
    [][ /\ (mpc = "pause_b3" /\ pret' = 1) =>
              mode' = (IF mode = 4 THEN 0 ELSE mode + 1)
        /\ (mpc = "pause_b2" /\ pret' = 1) => mode' = 0 ]_vars

\* the advance event that wrapped 4 to 0, button 2 released on that tick
C4_Witness ==
    /\ dmode = 4 /\ mode = 0 /\ pret = 1
    /\ smp2 = 1 /\ smp3 = 0
    /\ mpc \in {"dave_chk", "dave_end", "points_chk", "planes_xchk",
                "planes_ychk", "planes_zchk", "all_chk1", "all_chk2"}

\* C5: mode is 0 at the start, stays in 0..4, and changes only in a step of
\* the button-2 or button-3 test of pause().
C5_ModeRange ==
    /\ mode = 0
    /\ [](mode \in 0 .. 4)
    /\ [][ mode' # mode => mpc \in {"pause_b2", "pause_b3"} ]_vars

\* the mode has been advanced up to 4 and the composite case runs
C5_Witness ==
    mode = 4 /\ dmode = 4 /\ mpc = "points_chk"

\* C6: while the pause flag is set the main thread is in the loop of
\* button 1; its steps keep the tick counter, the frame buffer and the mode,
\* and stay in the loop unless they clear the flag, which only a pressed
\* sample after a released one does.
C6_PauseGate ==
    /\ [](pause = 1 => mpc = "pause_b1")
    /\ [][ pause = 1 =>
             /\ i' = i /\ display' = display /\ mode' = mode
             /\ mpc' = (IF pause' = 1 THEN "pause_b1" ELSE "pause_b2")
             /\ pause' = 0 => (smp1' = 0 /\ smp1 = 1) ]_vars

\* paused in planes(), button 1 released
C6_Witness ==
    pause = 1 /\ smp1 = 1 /\ mpc = "pause_b1" /\ rpc = "planes_ychk"

(***************************************************************************)
(* Properties of the generators and of the main loop (Spec).               *)
(***************************************************************************)
ChkPositions ==
    {"all_chk1", "all_chk2", "planes_xchk", "planes_ychk", "planes_zchk",
     "points_chk", "dave_chk", "dave_end"}

\* the main thread is at the test of the first pause() of a generator
FirstWait ==
    \/ mpc = "all_chk1"
    \/ mpc = "planes_xchk" /\ x = 0
    \/ mpc = "points_chk" /\ x = 0 /\ y = 0 /\ z = 0
    \/ mpc = "dave_chk" /\ c = 0 /\ y = 0

\* the leds the mutations before the first pause() leave on
FirstFrameOn(px, py, pz) ==
    CASE mpc = "all_chk1"    -> TRUE
      [] mpc = "planes_xchk" -> px = 0
      [] mpc = "points_chk"  -> px = 0 /\ py = 0 /\ pz = 0
      [] mpc = "dave_chk"    ->
             py = 0 /\ BitOf(daveGlyphs[1][pz + 1], XMask(px)) = 1

\* C7: a generator whose pause() returned 1 returns 1 in its next step
\* without touching the frame buffer; and at its first wait the frame
\* buffer holds exactly the mutations scheduled before that wait.
C7_Interruption ==
    /\ [](FirstWait =>
            \A px \in Idx, py \in Idx, pz \in Idx :
                LedOn(display, px, py, pz) <=> FirstFrameOn(px, py, pz))
    /\ [][ (mpc \in ChkPositions /\ pret # 0) =>
             (display' = display /\ gret' = 1 /\ mpc' = "main_ret") ]_vars

\* points() interrupted at its first wait: led (0,0,0) is still on
C7_Witness ==
    /\ mpc = "main_ret" /\ gret = 1 /\ dmode = 1
    /\ \A px \in Idx, py \in Idx, pz \in Idx :
           LedOn(display, px, py, pz) <=> (px = 0 /\ py = 0 /\ pz = 0)

CompositeOrder == <<"dave", "points", "planes", "all">>

GenAt(l) ==
    CASE l \in {"dave_begin", "dave_chk", "dave_end"}       -> "dave"
      [] l \in {"points_begin", "points_chk"}               -> "points"
      [] l \in {"planes_begin", "planes_xchk", "planes_ychk",
                "planes_zchk"}                              -> "planes"
      [] l \in {"all_begin", "all_chk1", "all_chk2"}        -> "all"
      [] OTHER                                              -> "none"

\* the generator the main thread is in, "none" between generators
Running ==
    IF mpc \in {"pause_while", "pause_b1", "pause_b2", "pause_b3"}
      THEN GenAt(rpc)
      ELSE GenAt(mpc)

\* C8: a loop iteration of mode 4 starts with dave(); the generator that
\* runs after k generators of the iteration have returned 0 is the k-th of
\* dave, points, planes, all; a generator that returns 1, and all(), are
\* followed by the switch, which reads mode again.
C8_Composite ==
    /\ []((dmode = 4 /\ Running # "none") =>
             Running = CompositeOrder[stage + 1])
    /\ [][ (mpc = "main_switch" /\ mode = 4) =>
             (mpc' = "dave_begin" /\ stage' = 0 /\ dmode' = 4) ]_vars
    /\ [][ (mpc = "main_ret" /\ dmode = 4) =>
             IF gret = 0 /\ stage < 3
               THEN stage' = stage + 1 /\ GenAt(mpc') # "none"
               ELSE mpc' = "main_switch" ]_vars

\* in mode 4 points() was interrupted: back to the switch
C8_Witness ==
    mpc = "main_switch" /\ dmode = 4 /\ stage = 1 /\ gret = 1

(***************************************************************************)
(* Properties of the timer interrupt (SpecIsr).                            *)
(***************************************************************************)
\* C9: the layer select port P1 has at most one bit cleared.
C9_OneLayer ==
    Cardinality({b \in Idx : BitOf(P1, Pow2(b)) = 0}) <= 1

\* the interrupt has returned with layer 7 enabled
C9_Witness ==
    P1 = 127 /\ ipc = "idle" /\ layer = 0

\* the port writes of a complete scan of layer l, in order
ExpectedWrites(l) ==
    [k \in 1 .. 17 |->
        IF k = 1 THEN <<"P1", 255>>
        ELSE IF k % 2 = 0 THEN <<"P2", Pow2((k - 2) \div 2)>>
        ELSE <<"P0", display[l][(k - 3) \div 2]>>]

\* C10: P2 and P0 are written only inside the interrupt, with P1 = 255
\* before and after the write; the writes of the interrupt are P1 = 255, then
\* for i = 0..7 the latch select 1<<i followed by display[layer][i]; and P1
\* leaves 255 only when all of them have been made.
C10_NoGhosting ==
    /\ [](ipc # "idle" =>
            /\ P1 = 255
            /\ Len(wr) \in 1 .. 17
            /\ \A k \in 1 .. Len(wr) : wr[k] = ExpectedWrites(layer)[k])
    /\ [][ (P0' # P0 \/ P2' # P2) =>
             (ipc \in {"select", "data"} /\ P1 = 255 /\ P1' = 255) ]_vars
    /\ [][ (P1 = 255 /\ P1' # 255) =>
             (Len(wr) = 17 /\ P1' = 255 - Pow2(layer)) ]_vars

\* layer 3 fully loaded, among its bytes a row of the glyph D
C10_Witness ==
    /\ ipc = "enable" /\ layer = 3 /\ Len(wr) = 17
    /\ \E k \in 1 .. 17 : wr[k] = <<"P0", 60>>

\* C11: layer starts at 0 and stays in 0..7; the step that ends an
\* interrupt enables the layer the interrupt was entered with, whose bytes
\* it has just written to P0, and advances layer by 1 modulo 8; nothing else
\* changes layer; so the k-th interrupt enables layer (k-1) mod 8 and 8
\* interrupts in a row enable the 8 layers once each.
C11_ScanOrder ==
    /\ layer = 0
    /\ [](layer \in 0 .. 7)
    /\ [][ ipc = "enable" =>
             /\ P1' = 255 - Pow2(layer)
             /\ layer' = (layer + 1) % 8
             /\ \A k \in Idx : wr[2 * k + 3] = <<"P0", display[layer][k]>> ]_vars
    /\ [][ layer' # layer => ipc = "enable" ]_vars
    /\ [](/\ Len(scan) < 8 => \A k \in 1 .. Len(scan) : scan[k] = k - 1
          /\ \A k \in 1 .. Len(scan) - 1 : scan[k + 1] = (scan[k] + 1) % 8
          /\ Len(scan) = 8 => {scan[k] : k \in 1 .. 8} = 0 .. 7)

\* at least 11 interrupts have run: the last 8 enabled 3,4,5,6,7,0,1,2
C11_Witness ==
    ipc = "idle" /\ Len(scan) = 8 /\ scan[1] = 3 /\ layer = 3

MaxFirings == 1

\* prior contents of the frame buffer: all on, all off, two mixed patterns
Frames ==
    {[j \in Idx |-> [k \in Idx |-> b]] : b \in {0, 255}} \cup
    {[j \in Idx |-> [k \in Idx |-> (b + 37 * j + 11 * k) % 256]] :
        b \in {90, 165}}

\* masks passed to character_on_y: the four glyphs and three test rows
Masks ==
    {daveGlyphs[g] : g \in 1 .. 4} \cup
    { <<255, 0, 0, 0, 0, 0, 0, 0>>,
      <<0, 0, 0, 0, 0, 0, 0, 0>>,
      <<1, 2, 4, 8, 16, 32, 64, 128>> }

InitPrim ==
    /\ display \in Frames
    /\ display0 = display
    /\ \/ /\ mpc = "set_point_read"
          /\ x \in Idx /\ y \in Idx /\ z \in Idx
          /\ arg_v \in {0, 1} /\ arg_c = <<>>
       \/ /\ mpc = "set_x_plane_call"
          /\ x \in Idx /\ y = 0 /\ z = 0
          /\ arg_v \in {0, 1} /\ arg_c = <<>>
       \/ /\ mpc = "character_on_y_call"
          /\ x = 0 /\ y \in Idx /\ z = 0
          /\ arg_v = 0 /\ arg_c \in Masks
    /\ mode = 0
    /\ pause = 0 /\ p41key = 0 /\ p42key = 0 /\ p43key = 0
    /\ i = 0 /\ pret = 0 /\ gret = 0
    /\ rpc = "none"
    /\ dmode = 0 /\ stage = 0
    /\ c = 0
    /\ P4 = 255 /\ TR0 = 1
    /\ smp1 = 2 /\ smp2 = 2 /\ smp3 = 2
    /\ layer = 0 /\ isr_i = 0 /\ ipc = "idle"
    /\ P0 = 255 /\ P1 = 255 /\ P2 = 255
    /\ wr = <<>> /\ scan = <<>>
    /\ assigned = TRUE
    /\ tmp = 0
    /\ mfr = FrameOff /\ ifr = FrameOff
    /\ nticks = 0

\* set_point: the read of display[z][y]
set_point_read ==
    /\ MainRuns /\ mpc = "set_point_read"
    /\ tmp' = display[z][y]
    /\ mpc' = "set_point_write"
    /\ UNCHANGED <<display, statics, i, pret, gret, rpc, dmode, stage, loops,
                   hw, samples, assigned, arg_v, arg_c, display0, mfr, nticks,
                   isrVars>>

\* set_point: the write of the changed byte to display[z][y]
set_point_write ==
    /\ MainRuns /\ mpc = "set_point_write"
    /\ display' = [display EXCEPT ![z][y] = PointByte(tmp, x, arg_v)]
    /\ mpc' = "set_point_done"
    /\ UNCHANGED <<statics, i, pret, gret, rpc, dmode, stage, loops, hw,
                   samples, assigned, harness, isrVars>>

\* set_x_plane(x, v)
set_x_plane_call ==
    /\ MainRuns /\ mpc = "set_x_plane_call"
    /\ display' = set_x_plane(display, x, arg_v)
    /\ mpc' = "set_x_plane_done"
    /\ UNCHANGED <<statics, i, pret, gret, rpc, dmode, stage, loops, hw,
                   samples, assigned, harness, isrVars>>

\* character_on_y(y, c)
character_on_y_call ==
    /\ MainRuns /\ mpc = "character_on_y_call"
    /\ display' = character_on_y(display, y, arg_c)
    /\ mpc' = "character_on_y_done"
    /\ UNCHANGED <<statics, i, pret, gret, rpc, dmode, stage, loops, hw,
                   samples, assigned, harness, isrVars>>

\* an interrupt, while fewer than MaxFirings have been served
isr_enter_call ==
    /\ Len(scan) < MaxFirings
    /\ isr_enter

NextPrim ==
    \/ set_point_read \/ set_point_write
    \/ set_x_plane_call
    \/ character_on_y_call
    \/ isr_enter_call \/ isr_select \/ isr_data \/ isr_enable

SpecPrim == InitPrim /\ [][NextPrim]_vars

Coords == Idx \X Idx \X Idx

\* the led at coordinate q = <<x, y, z>> has the same state in d and e
SameLed(d, e, q) == LedOn(d, q[1], q[2], q[3]) <=> LedOn(e, q[1], q[2], q[3])

\* C13: after set_point(x, y, z, v) led (x, y, z) is on if v = 1 and off if
\* v = 0, every other led is as in the prior frame buffer, and before the
\* write no led has changed, whatever interrupts were served meanwhile.
C13_SetPointIsolation ==
    /\ mpc \in {"set_point_read", "set_point_write"} => display = display0
    /\ mpc = "set_point_done" =>
         /\ LedOn(display, x, y, z) <=> arg_v = 1
         /\ \A q \in Coords \ {<<x, y, z>>} : SameLed(display, display0, q)

\* set_point(5, 7, 0, 1) has turned on a led that was off, and an interrupt
\* has read the old byte display[0][7] before the write
C13_Witness ==
    /\ mpc = "set_point_done" /\ ipc = "idle" /\ scan = <<0>>
    /\ x = 5 /\ y = 7 /\ z = 0 /\ arg_v = 1
    /\ ~LedOn(display0, 5, 7, 0) /\ LedOn(display, 5, 7, 0)
    /\ P0 = display0[0][7]

\* C14: after set_x_plane(x0, v) every led with x = x0 is on if v = 1 and
\* off if v = 0, and every led with x # x0 is as in the prior frame buffer.
C14_XPlane ==
    mpc = "set_x_plane_done" =>
        \A q \in Coords :
            IF q[1] = x THEN LedOn(display, q[1], q[2], q[3]) <=> arg_v = 1
                        ELSE SameLed(display, display0, q)

\* set_x_plane(3, 1) on a mixed frame buffer in which plane 3 was not all on
\* and has changed
C14_Witness ==
    /\ mpc = "set_x_plane_done" /\ x = 3 /\ arg_v = 1
    /\ display0[0][0] = 90
    /\ display # display0

\* C15: after character_on_y(y0, c) led (x, y0, z) is on iff bit 128 >> x of
\* c[z] is 1, and every led with y # y0 is as in the prior frame buffer; the
\* mask 255, 0, 0, 0, 0, 0, 0, 0 on y0 = 2 gives all 8 leds on at z = 0 and
\* all off at z = 1 .. 7.
C15_MaskLoad ==
    mpc = "character_on_y_done" =>
        /\ \A q \in Coords :
             IF q[2] = y
               THEN LedOn(display, q[1], q[2], q[3])
                      <=> BitOf(arg_c[q[3] + 1], XMask(q[1])) = 1
               ELSE SameLed(display, display0, q)
        /\ (y = 2 /\ arg_c = <<255, 0, 0, 0, 0, 0, 0, 0>>) =>
             \A px \in Idx : /\ LedOn(display, px, 2, 0)
                             /\ \A pz \in 1 .. 7 : ~LedOn(display, px, 2, pz)

\* the mask 255, 0, ... has been loaded on plane y = 2 of a frame buffer that
\* was all off
C15_Witness ==
    /\ mpc = "character_on_y_done" /\ y = 2
    /\ arg_c = <<255, 0, 0, 0, 0, 0, 0, 0>>
    /\ display0[0][0] = 255
    /\ display[0][2] = 0 /\ display[1][2] = 255

(***************************************************************************)
(* points() run from the dispatch loop with mode = 1 and buttons 2 and 3   *)
(* never pressed, so that no pause() returns 1.  The first state is the    *)
(* one main() is in after button 3 ended the first dave().                 *)
(***************************************************************************)
InitSweep ==
    /\ display = character_on_y([j \in Idx |-> [k \in Idx |-> 255]], 0,
                                daveGlyphs[1])
    /\ display0 = [j \in Idx |-> [k \in Idx |-> 0]]
    /\ mode = 1
    /\ pause = 0 /\ p41key = 0 /\ p42key = 0 /\ p43key = 1
    /\ i = 0 /\ pret = 1 /\ gret = 1
    /\ mpc = "main_switch" /\ rpc = "none"
    /\ dmode = 0 /\ stage = 0
    /\ c = 0 /\ x = 0 /\ y = 0 /\ z = 0
    /\ P4 = 255 /\ TR0 = 1
    /\ smp1 = 1 /\ smp2 = 1 /\ smp3 = 0
    /\ layer = 0 /\ isr_i = 0 /\ ipc = "idle"
    /\ P0 = 255 /\ P1 = 255 /\ P2 = 255
    /\ wr = <<>> /\ scan = <<>>
    /\ assigned = TRUE
    /\ arg_v = 0 /\ arg_c = <<>> /\ tmp = 0
    /\ mfr = FrameOff /\ ifr = FrameOff
    /\ nticks = 0

NextSweep ==
    \/ main_switch \/ main_ret
    \/ points_begin \/ points_chk
    \/ pause_while
    \/ pause_b1(Levels) \/ pause_b2(Released) \/ pause_b3(Released)

SpecSweep == InitSweep /\ [][NextSweep]_vars

\* the coordinates of the leds that are on in frame buffer d
Lit(d) == {q \in Coords : LedOn(d, q[1], q[2], q[3])}

\* the place of (x, y, z) in the order x outer, y middle, z inner
Ordinal == 64 * x + 8 * y + z

\* C16: in a run of points() in which no pause() returns 1, during every
\* wait the one led that is on is (x, y, z); the first wait is at (0, 0, 0),
\* each further wait is at the next coordinate in the order x outer, y
\* middle, z inner, the coordinates change nowhere else, and points()
\* returns only after the wait at (7, 7, 7), the 512th, with 0 and all leds
\* off.
C16_PointSweep ==
    /\ [](rpc = "points_chk" => Lit(display) = {<<x, y, z>>})
    /\ [][ mpc = "points_begin" =>
             Ordinal' = 0 /\ mpc' = "pause_while" /\ rpc' = "points_chk" ]_vars
    /\ [][ mpc = "points_chk" =>
             IF Ordinal < 511
               THEN /\ Ordinal' = Ordinal + 1
                    /\ mpc' = "pause_while" /\ rpc' = "points_chk"
               ELSE /\ mpc' = "main_ret" /\ gret' = 0
                    /\ Lit(display') = {} ]_vars
    /\ [][ (x' # x \/ y' # y \/ z' # z) =>
             mpc \in {"points_begin", "points_chk"} ]_vars

\* points() has returned 0 with all leds off, after a run in which button 1
\* paused the sweep
C16_Witness ==
    /\ mpc = "main_ret" /\ gret = 0 /\ dmode = 1
    /\ Lit(display) = {}
    /\ smp1 = 0

(***************************************************************************)
(* The two threads side by side: main() with the interrupt, and the calls  *)
(* of the primitives with the interrupt, each run with at most MaxFirings  *)
(* interrupts.                                                             *)
(***************************************************************************)
InitFrame == Init \/ InitPrim

NextFrame ==
    \/ main_sinter \/ main_p4 \/ main_switch \/ main_ret
    \/ dave_begin \/ dave_chk \/ dave_end \/ pause_while
    \/ pause_b1(Levels) \/ pause_b2(Released) \/ pause_b3(Released)
    \/ set_point_read \/ set_point_write
    \/ set_x_plane_call
    \/ character_on_y_call
    \/ isr_enter_call \/ isr_select \/ isr_data \/ isr_enable

SpecFrame == InitFrame /\ [][NextFrame]_vars

\* C17: a step of the interrupt leaves display, mode, pause and the three
\* latches unchanged; a step of the main thread leaves P0, P1, P2 and layer
\* unchanged; so the byte set_point has read is still the byte in the frame
\* buffer when it writes, and the write gives what an undivided set_point
\* would give.
C17_SingleWriter ==
    /\ [][ ipc' # ipc =>
             UNCHANGED <<display, mode, pause, p41key, p42key, p43key>> ]_vars
    /\ [][ ipc' = ipc => UNCHANGED <<P0, P1, P2, layer>> ]_vars
    /\ [](mpc = "set_point_write" => tmp = display[z][y])
    /\ [][ mpc = "set_point_write" /\ mpc' = "set_point_done" =>
             display' = set_point(display, x, y, z, arg_v) ]_vars

\* set_point(2, 7, 0, 0) has turned off a led that was on, an interrupt
\* having driven the old byte display[0][7] onto P0 and enabled layer 0
C17_Witness ==
    /\ mpc = "set_point_done" /\ ipc = "idle" /\ scan = <<0>>
    /\ x = 2 /\ y = 7 /\ z = 0 /\ arg_v = 0
    /\ LedOn(display0, 2, 7, 0) /\ ~LedOn(display, 2, 7, 0)
    /\ P0 = display0[0][7] /\ P1 = 254

(***************************************************************************)
(* delay5us() and delay() step by step, lines 49-63.  An activation is a   *)
(* record: pc the position in it, a and b the counters of delay5us, n the  *)
(* counter i of delay, top the function that was called, cnt the number of *)
(* calls of delay5us that delay has made.  mfr is the activation of the    *)
(* main thread and ifr that of timer_isr.                                  *)
(***************************************************************************)
\* variant: one static copy of a, b and i serves both threads
LocalsOf_Static(ctx) == "main"

\* unsigned char a, b; unsigned int i: each activation has its own
LocalsOf(ctx) == ctx

\* delay(n) has been called
CallDelay(n) ==
    [pc |-> "delay_while", a |-> 0, b |-> 0, n |-> n, top |-> "delay",
     cnt |-> 0]

\* delay5us() has been called: b = 7
CallDelay5us ==
    [pc |-> "d5_outer", a |-> 0, b |-> 7, n |-> 0, top |-> "delay5us",
     cnt |-> 0]

\* one step of the activation f
DelayStep(f) ==
    CASE f.pc = "delay_while" ->
           \* while (i--) delay5us();
           IF f.n = 0
             THEN [f EXCEPT !.pc = "off", !.a = 0, !.b = 0]
             ELSE [f EXCEPT !.n = f.n - 1, !.cnt = f.cnt + 1, !.b = 7,
                            !.pc = "d5_outer"]
      [] f.pc = "d5_outer" ->
           \* for (b = 7; b > 0; ...) a = 2
           IF f.b > 0
             THEN [f EXCEPT !.a = 2, !.pc = "d5_inner"]
             ELSE IF f.top = "delay"
                    THEN [f EXCEPT !.pc = "delay_while"]
                    ELSE [f EXCEPT !.pc = "off", !.a = 0, !.b = 0]
      [] f.pc = "d5_inner" ->
           \* for (...; a > 0; a--) ; b--
           IF f.a > 0
             THEN [f EXCEPT !.a = f.a - 1]
             ELSE [f EXCEPT !.b = (f.b + 255) % 256, !.pc = "d5_outer"]
      [] OTHER -> f

\* the activation of timer_isr with the counters it finds in its storage
IsrFrame ==
    IF LocalsOf("isr") = "main"
      THEN [ifr EXCEPT !.a = mfr.a, !.b = mfr.b, !.n = mfr.n]
      ELSE ifr

\* timer_isr stores its activation f
StoreIsr(f) ==
    /\ ifr' = f
    /\ mfr' = IF LocalsOf("isr") = "main"
                THEN [mfr EXCEPT !.a = f.a, !.b = f.b, !.n = f.n]
                ELSE mfr

\* pause(n) or delay(n) called by the main thread, n in 0 .. MaxTicks
InitDelay ==
    /\ arg_v \in 0 .. MaxTicks
    /\ \/ /\ mpc = "pause_while" /\ rpc = "pause_done" /\ i = arg_v
       \/ /\ mpc = "delay_call" /\ rpc = "none" /\ i = 0
    /\ display = [j \in Idx |-> [k \in Idx |-> 255]]
    /\ display0 = display
    /\ mode = 0
    /\ pause = 0 /\ p41key = 0 /\ p42key = 0 /\ p43key = 0
    /\ pret = 0 /\ gret = 0
    /\ dmode = 0 /\ stage = 0
    /\ c = 0 /\ x = 0 /\ y = 0 /\ z = 0
    /\ P4 = 255 /\ TR0 = 1
    /\ smp1 = 2 /\ smp2 = 2 /\ smp3 = 2
    /\ layer = 0 /\ isr_i = 0 /\ ipc = "idle"
    /\ P0 = 255 /\ P1 = 255 /\ P2 = 255
    /\ wr = <<>> /\ scan = <<>>
    /\ assigned = TRUE
    /\ arg_c = <<>> /\ tmp = 0
    /\ mfr = FrameOff /\ ifr = FrameOff
    /\ nticks = 0

\* while (i--) { delay5us(); : the test and the call
pause_while_call ==
    /\ MainRuns /\ mpc = "pause_while"
    /\ IF i = 0
         THEN /\ pret' = 0
              /\ mpc' = rpc
              /\ UNCHANGED <<i, mfr>>
         ELSE /\ i' = i - 1
              /\ mfr' = CallDelay5us
              /\ mpc' = "pause_delay5us"
              /\ pret' = pret
    /\ UNCHANGED <<display, statics, gret, rpc, dmode, stage, loops, hw,
                   samples, assigned, arg_v, arg_c, tmp, display0, nticks,
                   isrVars>>

\* a step of the delay5us() called by pause; its return starts the polls
pause_delay5us ==
    /\ MainRuns /\ mpc = "pause_delay5us"
    /\ mfr' = DelayStep(mfr)
    /\ IF mfr'.pc = "off"
         THEN /\ mpc' = "pause_b1"
              /\ nticks' = nticks + 1
         ELSE UNCHANGED <<mpc, nticks>>
    /\ UNCHANGED <<display, statics, i, pret, gret, rpc, dmode, stage, loops,
                   hw, samples, assigned, arg_v, arg_c, tmp, display0,
                   isrVars>>

\* the main thread calls delay(arg_v)
delay_call ==
    /\ MainRuns /\ mpc = "delay_call"
    /\ mfr' = CallDelay(arg_v)
    /\ mpc' = "delay_run"
    /\ UNCHANGED <<display, statics, i, pret, gret, rpc, dmode, stage, loops,
                   hw, samples, assigned, arg_v, arg_c, tmp, display0, nticks,
                   isrVars>>

\* a step of the delay() called by the main thread
delay_run ==
    /\ MainRuns /\ mpc = "delay_run"
    /\ mfr' = DelayStep(mfr)
    /\ mpc' = IF mfr'.pc = "off" THEN "delay_done" ELSE mpc
    /\ UNCHANGED <<display, statics, i, pret, gret, rpc, dmode, stage, loops,
                   hw, samples, assigned, arg_v, arg_c, tmp, display0, nticks,
                   isrVars>>

\* an interrupt taken inside pause() or delay(), while fewer than
\* MaxFirings have been served
isr_enter_inside ==
    /\ mpc \notin {"delay_call", "delay_done", "pause_done"}
    /\ Len(scan) < MaxFirings
    /\ isr_enter

\* P2 = 1<<i; and the call of delay(3)
isr_select_call ==
    /\ ipc = "select"
    /\ P2' = Shl1(isr_i)
    /\ wr' = Append(wr, <<"P2", P2'>>)
    /\ StoreIsr(CallDelay(3))
    /\ ipc' = "select_delay"
    /\ UNCHANGED <<display, statics, i, pret, gret, mpc, rpc, dmode, stage,
                   loops, hw, samples, assigned, arg_v, arg_c, tmp, display0,
                   nticks, layer, isr_i, P0, P1, scan>>

\* P0 = display[layer][i]; and the call of delay(3)
isr_data_call ==
    /\ ipc = "data"
    /\ P0' = display[layer][isr_i]
    /\ wr' = Append(wr, <<"P0", P0'>>)
    /\ StoreIsr(CallDelay(3))
    /\ ipc' = "data_delay"
    /\ UNCHANGED <<display, statics, i, pret, gret, mpc, rpc, dmode, stage,
                   loops, hw, samples, assigned, arg_v, arg_c, tmp, display0,
                   nticks, layer, isr_i, P1, P2, scan>>

\* a step of a delay(3) called by timer_isr; the return of the second one
\* ends the pass of the for loop: i++
isr_delay ==
    /\ ipc \in {"select_delay", "data_delay"}
    /\ LET f == DelayStep(IsrFrame)
       IN  /\ StoreIsr(f)
           /\ IF f.pc # "off"
                THEN UNCHANGED <<ipc, isr_i>>
                ELSE IF ipc = "select_delay"
                       THEN ipc' = "data" /\ isr_i' = isr_i
                       ELSE /\ isr_i' = isr_i + 1
                            /\ ipc' = IF isr_i + 1 < 8 THEN "select"
                                                       ELSE "enable"
    /\ UNCHANGED <<display, statics, i, pret, gret, mpc, rpc, dmode, stage,
                   loops, hw, samples, assigned, arg_v, arg_c, tmp, display0,
                   nticks, layer, P0, P1, P2, wr, scan>>

NextDelay ==
    \/ pause_while_call \/ pause_delay5us
    \/ pause_b1(Released) \/ pause_b2(Released) \/ pause_b3(Released)
    \/ delay_call \/ delay_run
    \/ isr_enter_inside \/ isr_select_call \/ isr_data_call \/ isr_delay
    \/ isr_enable

SpecDelay == InitDelay /\ [][NextDelay]_vars

\* C18: the steps of timer_isr, its calls of delay(3) included, leave the
\* activation and the counters of the main thread unchanged, and each of its
\* delay(3) makes 3 calls of delay5us; so with no button pressed pause(n)
\* returns 0 after exactly n poll ticks and delay(n) returns after exactly n
\* calls of delay5us, wherever the interrupts were taken.
C18_SharedDelay ==
    /\ [][ (ipc # "idle" \/ ipc' # "idle") =>
             UNCHANGED <<mfr, i, nticks>> ]_vars
    /\ [][ (ipc \in {"select_delay", "data_delay"} /\ ipc' # ipc) =>
             ifr'.cnt = 3 ]_vars
    /\ [](mpc = "pause_done" => pret = 0 /\ i = 0 /\ nticks = arg_v)
    /\ [](mpc = "delay_done" => mfr.cnt = arg_v)

\* pause(2) has returned 0 after 2 ticks and an interrupt was served inside
C18_Witness ==
    /\ mpc = "pause_done" /\ arg_v = 2 /\ nticks = 2 /\ pret = 0
    /\ scan = <<0>> /\ ipc = "idle"

(***************************************************************************)
(* main() with the interrupt, under the assumption that the timer keeps    *)
(* firing and a started timer_isr runs on: weak fairness of the steps of   *)
(* the interrupt.  The main thread is only assumed to get through          *)
(* sinter(); after that it may stay wherever it is for ever.               *)
(***************************************************************************)
SpecIsrFair == SpecIsr /\ WF_vars(IsrNext) /\ WF_vars(main_sinter)

\* C19: with the timer firing for ever, each of the 8 layers is enabled
\* again and again in every execution, also in those where the main thread
\* stays in the paused loop of pause() for ever.
C19_RefreshLiveness ==
    \A l \in Idx : []<>(ipc = "idle" /\ P1 = 255 - Pow2(l))

\* layer 7 is enabled, after layers 0 .. 6, while the main thread is held in
\* the button-1 loop with the pause flag set
C19_Witness ==
    /\ pause = 1 /\ mpc = "pause_b1"
    /\ ipc = "idle" /\ P1 = 127
    /\ Len(scan) = 8 /\ scan[8] = 7

\* the first position of the case of the switch for mode m
CaseOf(m) ==
    CASE m = 0 -> "dave_begin"
      [] m = 1 -> "points_begin"
      [] m = 2 -> "planes_begin"
      [] m = 3 -> "all_begin"
      [] m = 4 -> "dave_begin"

\* C20: the switch takes the case of the current mode (0 dave, 1 points,
\* 2 planes, 3 all, 4 the composite from its first generator) and the mode
\* an iteration goes by is taken there and nowhere else; some step is always
\* possible; a step that changes mode is the return of pause() with 1; the
\* frame buffer changes only while mode is the mode the iteration was
\* dispatched under; and after a change of mode the generator that returns
\* is followed by the switch, which starts the generator of the new mode.
C20_Dispatch ==
    /\ [](ENABLED Next)
    /\ [][ mpc = "main_switch" =>
             /\ dmode' = mode /\ mode' = mode
             /\ stage' = 0
             /\ mpc' = CaseOf(mode) ]_vars
    /\ [][ dmode' # dmode => mpc = "main_switch" ]_vars
    /\ [][ mode' # mode => pret' = 1 /\ mpc' = rpc /\ mpc \in {"pause_b2", "pause_b3"} ]_vars
    /\ [][ display' # display => mode = dmode ]_vars
    /\ [][ (mpc = "main_ret" /\ mode # dmode) => mpc' = "main_switch" ]_vars
    /\ [](mode # dmode => pret = 1 /\ mpc \notin {"pause_while", "pause_b1", "pause_b2", "pause_b3"})

\* points() has been started by the switch after button 3 changed the mode
\* from 0 to 1 and ended dave()
C20_Witness ==
    /\ mpc = "points_begin" /\ mode = 1 /\ dmode = 1
    /\ pret = 1 /\ smp3 = 0 /\ p43key = 1

====
